---- MODULE Spec2Model ----
(***************************************************************************)
(* A model of dbbase: the DBBase connection wrapper (core.py), the plugin  *)
(* manager (plugin_manager.py), the Model CRUD layer (models.py) and the   *)
(* QueryBuilder / QuerySet pair (query.py).                                *)
(*                                                                         *)
(* SQL text is kept as the sequence of its clauses, each clause a keyword  *)
(* and the list of its items, each item the list of its words.  Python     *)
(* keyword arguments are sequences of <<key, value>> pairs (a dict keeps   *)
(* insertion order).  Every value is a string.  The SQLite engine is       *)
(* modelled by what it does with the statements the library generates.     *)
(*                                                                         *)
(* The program is single-threaded and synchronous: an operation runs to    *)
(* completion.  `call` holds the transcript of the operation that has just *)
(* run (hooks fired, statements executed, commit / rollback, the error     *)
(* raised); Return hands control back to the caller.  Plugins are          *)
(* observers: a hook that is called is recorded and returns normally.      *)
(***************************************************************************)
EXTENDS Integers, Sequences, FiniteSets, TLC

VARIABLES connection, db, plugins, qs, call

vars == <<connection, db, plugins, qs, call>>

-----------------------------------------------------------------------------
(* Bounds of the model *)

MaxId == 2

MaxKw == 2

MaxPlugins == 2

MaxFilters == 2

MaxLikes == 1

-----------------------------------------------------------------------------
(* Values *)

\* Python's None
None == "<None>"

\* f"{x}": None is formatted as the text None, a string as itself
Fmt(x) == IF x = None THEN "None" ELSE x

IdNames == <<"1", "2", "3", "4">>

Ids == {IdNames[i] : i \in 1..MaxId}

Names == {"a"}

Columns == {"id", "name"}

FieldVals(key) == IF key = "id" THEN Ids ELSE Names

Row == [id : Ids, name : Names]

Pairs == UNION {{<<k, v>> : v \in FieldVals(k)} : k \in Columns}

\* **kwargs: pairs in the order written, no key twice
Kwargs ==
    {s \in UNION {[1..n -> Pairs] : n \in 0..MaxKw} :
        \A i, j \in 1..Len(s) : i # j => s[i][1] # s[j][1]}

KwKeys(kw) == [i \in 1..Len(kw) |-> kw[i][1]]

KwValues(kw) == [i \in 1..Len(kw) |-> kw[i][2]]

\* "%" + value + "%"
Percent(v) ==
    CASE v = "a" -> "%a%"
      [] v = "1" -> "%1%"
      [] v = "2" -> "%2%"
      [] v = "3" -> "%3%"
      [] v = "4" -> "%4%"
      [] OTHER -> "%%"

-----------------------------------------------------------------------------
(* models.py: fields and record types *)

Field(field_name, field_type, primary_key, nullable, unique, default) ==
    [name |-> field_name, field_type |-> field_type, primary_key |-> primary_key,
     nullable |-> nullable, unique |-> unique, default |-> default]

TextField(field_name, primary_key, nullable, unique) ==
    Field(field_name, "TEXT", primary_key, nullable, unique, None)

get_definition(f) ==
    <<f.field_type>>
    \o (IF f.primary_key THEN <<"PRIMARY KEY">> ELSE <<>>)
    \o (IF f.unique /\ ~f.primary_key THEN <<"UNIQUE">> ELSE <<>>)
    \o (IF ~f.nullable THEN <<"NOT NULL">> ELSE <<>>)
    \o (IF f.default # None THEN <<"DEFAULT", f.default>> ELSE <<>>)

\* class User(Model): table_name = "users"; id = TextField(primary_key=True,
\* nullable=False); name = TextField(nullable=False)
User ==
    [table_name |-> "users",
     fields |-> <<TextField("id", TRUE, FALSE, FALSE), TextField("name", FALSE, FALSE, FALSE)>>]

\* class Model itself: table_name = None, and no field declared
Model == [table_name |-> None, fields |-> <<>>]

Classes == {User, Model}

TableNames == {Fmt(c.table_name) : c \in Classes}

-----------------------------------------------------------------------------
(* SQL text *)

Clause(kw, items) == [kw |-> kw, items |-> items]

EqItems(keys) == [i \in 1..Len(keys) |-> <<keys[i], "=", "?">>]

LikeItems(keys) == [i \in 1..Len(keys) |-> <<keys[i], "LIKE", "?">>]

TableOf(text) == text[1].items[1][1]

IsPlaceholder(item) == item[Len(item)] = "?"

RECURSIVE CountPlaceholders(_)
CountPlaceholders(text) ==
    IF text = <<>> THEN 0
    ELSE Len(SelectSeq(Head(text).items, IsPlaceholder))
         + CountPlaceholders(Tail(text))

ClausesOf(text, kw) == SelectSeq(text, LAMBDA c : c.kw = kw)

Keywords(text) == [i \in 1..Len(text) |-> text[i].kw]

-----------------------------------------------------------------------------
(* The SQLite engine behind sqlite3.Connection, for the generated statements *)

Table == [exists : BOOLEAN, rows : SUBSET Row]

NoTable == [exists |-> FALSE, rows |-> {}]

\* binary collation of the TEXT values in use
ValRank(v) ==
    CASE v = "1" -> 1
      [] v = "2" -> 2
      [] v = "3" -> 3
      [] v = "4" -> 4
      [] OTHER -> 10

\* value LIKE pattern; every value is a single character, so a pattern
\* %w% matches exactly the value w, and a pattern without wildcard itself
LikeMatch(pattern, v) ==
    \/ pattern = v
    \/ \E w \in Ids \cup Names : pattern = Percent(w) /\ w = v

\* the items of one WHERE / SET clause against the parameters bound to them
CondHolds(row, item, p) ==
    IF item[2] = "LIKE" THEN LikeMatch(p, row[item[1]]) ELSE row[item[1]] = p

Matching(rows, items, ps) ==
    {r \in rows : \A i \in 1..Len(items) : CondHolds(r, items[i], ps[i])}

ItemColumns(items) == {items[i][1] : i \in 1..Len(items)}

Perms(S) ==
    {s \in [1..Cardinality(S) -> S] :
        \A i, j \in 1..Cardinality(S) : i # j => s[i] # s[j]}

\* the orders a SELECT may deliver: any order without ORDER BY, else sorted
\* on the named column, ties in any order
Sorted(s, order) ==
    \/ order = <<>>
    \/ \A i \in 1..(Len(s) - 1) :
          IF order[2] = "DESC"
          THEN ValRank(s[i][order[1]]) >= ValRank(s[i + 1][order[1]])
          ELSE ValRank(s[i][order[1]]) <= ValRank(s[i + 1][order[1]])

Truncate(s, limited) == IF limited /\ Len(s) > 1 THEN <<s[1]>> ELSE s

SelectKeywordRank(kw) ==
    CASE kw = "WHERE" -> 1 [] kw = "ORDER BY" -> 2 [] kw = "LIMIT" -> 3 [] OTHER -> 0

\* SELECT * FROM t [WHERE ...] [ORDER BY ...] [LIMIT 1]: each at most once,
\* in this order, WHERE with at least one condition
SelectSyntaxOk(text) ==
    /\ \A i \in 2..Len(text) :
          /\ SelectKeywordRank(text[i].kw) > 0
          /\ Len(text[i].items) >= 1
          /\ i > 2 => SelectKeywordRank(text[i - 1].kw) < SelectKeywordRank(text[i].kw)

\* what cursor.execute does: whether it returned, the database after it,
\* the rows of the cursor, and the message of the sqlite3.Error it raised
Outcome(ok, d, rows, why) == [ok |-> ok, db |-> d, rows |-> rows, why |-> why]

Fails(d, why) == {Outcome(FALSE, d, <<>>, why)}

RunSelect(text, params, d) ==
    LET t == TableOf(text)
        wh == ClausesOf(text, "WHERE")
        ob == ClausesOf(text, "ORDER BY")
        items == IF wh = <<>> THEN <<>> ELSE wh[1].items
        order == IF ob = <<>> THEN <<>> ELSE ob[1].items[1]
        limited == ClausesOf(text, "LIMIT") # <<>>
    IN  CASE ~SelectSyntaxOk(text) -> Fails(d, "syntax error")
          [] ~d[t].exists -> Fails(d, "no such table")
          [] ~(ItemColumns(items) \subseteq Columns)
             \/ (order # <<>> /\ order[1] \notin Columns) -> Fails(d, "no such column")
          [] CountPlaceholders(text) # Len(params) ->
               Fails(d, "incorrect number of bindings")
          [] OTHER ->
               {Outcome(TRUE, d, Truncate(s, limited), "") :
                   s \in {p \in Perms(Matching(d[t].rows, items, params)) :
                             Sorted(p, order)}}

RunInsert(text, params, d, locked) ==
    LET t == TableOf(text)
        cols == [i \in 1..Len(text[2].items) |-> text[2].items[i][1]]
        val(c) == params[CHOOSE i \in 1..Len(cols) : cols[i] = c]
    IN  CASE \/ Keywords(text) # <<"INSERT INTO", "COLUMNS", "VALUES">>
             \/ Len(cols) = 0
             \/ Len(text[3].items) # Len(cols) -> Fails(d, "syntax error")
          [] ~d[t].exists -> Fails(d, "no such table")
          [] ~(ItemColumns(text[2].items) \subseteq Columns) -> Fails(d, "no such column")
          [] CountPlaceholders(text) # Len(params) ->
               Fails(d, "incorrect number of bindings")
          [] locked -> Fails(d, "database is locked")
          \* every declared column is NOT NULL and has no default
          [] ItemColumns(text[2].items) # Columns -> Fails(d, "NOT NULL constraint failed")
          \* PRIMARY KEY
          [] \E r \in d[t].rows : r.id = val("id") -> Fails(d, "UNIQUE constraint failed")
          [] OTHER ->
               {Outcome(TRUE,
                        [d EXCEPT ![t].rows =
                            @ \cup {[id |-> val("id"), name |-> val("name")]}],
                        <<>>, "")}

\* the row after SET
Assign(row, items, ps) ==
    [c \in Columns |->
        IF c \in ItemColumns(items)
        THEN ps[CHOOSE i \in 1..Len(items) : items[i][1] = c]
        ELSE row[c]]

RunUpdate(text, params, d, locked) ==
    LET t == TableOf(text)
        n == Len(text[2].items)
        hit == Matching(d[t].rows, text[3].items, SubSeq(params, n + 1, Len(params)))
        kept == d[t].rows \ hit
        new == {Assign(r, text[2].items, params) : r \in hit}
    IN  CASE \/ Keywords(text) # <<"UPDATE", "SET", "WHERE">>
             \/ n = 0
             \/ Len(text[3].items) = 0 -> Fails(d, "syntax error")
          [] ~d[t].exists -> Fails(d, "no such table")
          [] ~(ItemColumns(text[2].items) \cup ItemColumns(text[3].items)
                 \subseteq Columns) -> Fails(d, "no such column")
          [] CountPlaceholders(text) # Len(params) ->
               Fails(d, "incorrect number of bindings")
          [] locked -> Fails(d, "database is locked")
          \* PRIMARY KEY: the statement fails and changes nothing
          [] \/ Cardinality(new) # Cardinality(hit)
             \/ \E a \in new, b \in kept : a.id = b.id
             \/ \E a, b \in new : a # b /\ a.id = b.id ->
               Fails(d, "UNIQUE constraint failed")
          [] OTHER -> {Outcome(TRUE, [d EXCEPT ![t].rows = kept \cup new], <<>>, "")}

RunDelete(text, params, d, locked) ==
    LET t == TableOf(text)
    IN  CASE \/ Keywords(text) # <<"DELETE FROM", "WHERE">>
             \/ Len(text[2].items) = 0 -> Fails(d, "syntax error")
          [] ~d[t].exists -> Fails(d, "no such table")
          [] ~(ItemColumns(text[2].items) \subseteq Columns) -> Fails(d, "no such column")
          [] CountPlaceholders(text) # Len(params) ->
               Fails(d, "incorrect number of bindings")
          [] locked -> Fails(d, "database is locked")
          [] OTHER ->
               {Outcome(TRUE,
                        [d EXCEPT ![t].rows = @ \ Matching(@, text[2].items, params)],
                        <<>>, "")}

RunCreateTable(text, params, d, locked) ==
    LET t == TableOf(text)
    IN  CASE \/ Keywords(text) # <<"CREATE TABLE IF NOT EXISTS", "COLUMNS">>
             \/ Len(text[2].items) = 0 -> Fails(d, "syntax error")
          [] params # <<>> -> Fails(d, "incorrect number of bindings")
          [] locked -> Fails(d, "database is locked")
          [] OTHER ->
               {Outcome(TRUE,
                        IF d[t].exists THEN d
                        ELSE [d EXCEPT ![t] = [exists |-> TRUE, rows |-> {}]],
                        <<>>, "")}

RunDropTable(text, params, d, locked) ==
    LET t == TableOf(text)
    IN  CASE Len(text) # 1 -> Fails(d, "syntax error")
          [] params # <<>> -> Fails(d, "incorrect number of bindings")
          [] locked -> Fails(d, "database is locked")
          [] OTHER -> {Outcome(TRUE, [d EXCEPT ![t] = NoTable], <<>>, "")}

\* cursor.execute(query, params): the possible outcomes.  `locked` says the
\* database file is locked by another process, so that no write gets through.
Engine(text, params, d, locked) ==
    CASE text[1].kw = "SELECT * FROM" -> RunSelect(text, params, d)
      [] text[1].kw = "INSERT INTO" -> RunInsert(text, params, d, locked)
      [] text[1].kw = "UPDATE" -> RunUpdate(text, params, d, locked)
      [] text[1].kw = "DELETE FROM" -> RunDelete(text, params, d, locked)
      [] text[1].kw = "CREATE TABLE IF NOT EXISTS" -> RunCreateTable(text, params, d, locked)
      [] text[1].kw = "DROP TABLE IF EXISTS" -> RunDropTable(text, params, d, locked)
      [] OTHER -> Fails(d, "syntax error")

-----------------------------------------------------------------------------
(* Errors *)

NoError == ""

\* DatabaseConnectionError("Database connection is not established.")
ErrNotEstablished == "DatabaseConnectionError: connection not established"

\* DatabaseConnectionError("Failed to connect to the database: ...")
ErrConnect == "DatabaseConnectionError: failed to connect"

\* DatabaseConnectionError("Failed to execute query: ...")
ErrExecute == "DatabaseConnectionError: failed to execute query"

\* DatabaseConnectionError("Failed to execute script: ...")
ErrScript == "DatabaseConnectionError: failed to execute script"

\* an exception the caller's own transaction body raises
ErrBody == "Exception raised by the transaction body"

ConnectionLayerErrors == {ErrNotEstablished, ErrConnect, ErrExecute, ErrScript}

-----------------------------------------------------------------------------
(* The transcript of a running operation *)

NoEvent ==
    [e |-> "", hook |-> "", plugin |-> 0, text |-> <<>>, params |-> <<>>,
     ok |-> TRUE, why |-> "", kwargs |-> <<>>, before |-> <<>>, after |-> <<>>]

\* the running operation: the database as it stands, what has happened so
\* far, the exception in flight, and the rows of the last cursor
Start == [db |-> db, events |-> <<>>, err |-> NoError, rows |-> <<>>]

Raise(r, err) == [r EXCEPT !.err = err]

Record(r, ev) == [r EXCEPT !.events = Append(@, ev)]

-----------------------------------------------------------------------------
(* plugin_manager.py *)

\* the plugin classes an application registers, and the hooks each defines
PluginHooks(kind) ==
    CASE kind = "Audit" ->
           {"before_save", "after_save", "before_update", "after_update",
            "before_delete", "after_delete"}
      [] kind = "Logger" -> {"before_query", "after_save"}
      [] OTHER -> {}

PluginKinds == {"Audit", "Logger"}

\* for plugin in self.plugins: hook = getattr(plugin, hook_name, None);
\* if callable(hook): hook(*args, **kwargs)
call_hook(r, hook_name, args) ==
    IF r.err # NoError THEN r
    ELSE LET idx == SelectSeq([i \in 1..Len(plugins) |-> i],
                              LAMBDA i : hook_name \in PluginHooks(plugins[i]))
         IN  [r EXCEPT !.events = @ \o
                [k \in 1..Len(idx) |->
                    [args EXCEPT !.e = "hook", !.hook = hook_name, !.plugin = idx[k]]]]

-----------------------------------------------------------------------------
(* core.py: DBBase *)

\* execute without its guard: the statement reaches the engine whether or
\* not connect() has run
execute_unguarded(r, query, params, locked) ==
    IF r.err # NoError THEN {r}
    ELSE LET r1 == call_hook(r, "before_query",
                             [NoEvent EXCEPT !.text = query, !.params = params])
         IN  {[db |-> o.db,
               events |-> Append(r1.events,
                                 [NoEvent EXCEPT !.e = "execute", !.text = query,
                                                 !.params = params, !.ok = o.ok,
                                                 !.why = o.why]),
               err |-> IF o.ok THEN NoError ELSE ErrExecute,
               rows |-> o.rows] : o \in Engine(query, params, r1.db, locked)}

\* DBBase.execute: the guard, the before_query hook, cursor.execute
execute(r, query, params, locked) ==
    IF r.err # NoError THEN {r}
    ELSE IF ~connection THEN {Raise(r, ErrNotEstablished)}
    ELSE LET r1 == call_hook(r, "before_query",
                             [NoEvent EXCEPT !.text = query, !.params = params])
         IN  {[db |-> o.db,
               events |-> Append(r1.events,
                                 [NoEvent EXCEPT !.e = "execute", !.text = query,
                                                 !.params = params, !.ok = o.ok,
                                                 !.why = o.why]),
               err |-> IF o.ok THEN NoError ELSE ErrExecute,
               rows |-> o.rows] : o \in Engine(query, params, r1.db, locked)}

\* cursor.fetchone(): the first row, or None
fetch_one(r, query, params) ==
    {[x EXCEPT !.rows = IF x.err = NoError /\ Len(@) > 1 THEN <<@[1]>> ELSE @] :
        x \in execute(r, query, params, FALSE)}

\* cursor.fetchall()
fetch_all(r, query, params) == execute(r, query, params, FALSE)

\* transaction(): the guard and the yield
transaction_enter(r) ==
    IF r.err # NoError THEN r
    ELSE IF ~connection THEN Raise(r, ErrNotEstablished)
    ELSE Record(r, [NoEvent EXCEPT !.e = "enter"])

\* a transaction() whose handler commits what the body did before it failed
transaction_exit_commits(r, b) == Record(b, [NoEvent EXCEPT !.e = "commit"])

\* transaction(): after the body `b`, entered in state `r`: commit, or
\* rollback and raise again
transaction_exit(r, b) ==
    IF b.err = NoError
    THEN Record(b, [NoEvent EXCEPT !.e = "commit"])
    ELSE [Record(b, [NoEvent EXCEPT !.e = "rollback"]) EXCEPT !.db = r.db]

\* with db.transaction(): db.execute(query, params)
transaction_execute(r, query, params, locked) ==
    LET r1 == transaction_enter(r)
    IN  IF r1.err # NoError THEN {r1}
        ELSE {transaction_exit(r1, b) : b \in execute(r1, query, params, locked)}

\* connection.executescript(script): statement after statement, each
\* committed as it runs, up to the first that fails
RECURSIVE RunScript(_, _, _)
RunScript(script, d, locked) ==
    IF script = <<>> THEN Outcome(TRUE, d, <<>>, "")
    ELSE LET o == CHOOSE x \in Engine(Head(script), <<>>, d, locked) : TRUE
         IN  IF o.ok THEN RunScript(Tail(script), o.db, locked) ELSE o

\* DBBase.execute_script
execute_script(r, script, locked) ==
    IF ~connection THEN Raise(r, ErrNotEstablished)
    ELSE LET o == RunScript(script, r.db, locked)
         IN  [Record(r, [NoEvent EXCEPT !.e = "script", !.ok = o.ok, !.why = o.why])
                EXCEPT !.db = o.db, !.err = IF o.ok THEN NoError ELSE ErrScript]

-----------------------------------------------------------------------------
(* models.py: Model *)

TableItem(cls) == <<<<Fmt(cls.table_name)>>>>

\* f"CREATE TABLE IF NOT EXISTS {cls.table_name} ({field_definitions})"
CreateTableText(cls) ==
    <<Clause("CREATE TABLE IF NOT EXISTS", TableItem(cls)),
      Clause("COLUMNS",
             [i \in 1..Len(cls.fields) |->
                 <<cls.fields[i].name>> \o get_definition(cls.fields[i])])>>

\* f"DROP TABLE IF EXISTS {cls.table_name}"
DropTableText(cls) == <<Clause("DROP TABLE IF EXISTS", TableItem(cls))>>

\* f"INSERT INTO {cls.table_name} ({fields}) VALUES ({placeholders})"
InsertText(cls, kwargs) ==
    <<Clause("INSERT INTO", TableItem(cls)),
      Clause("COLUMNS", [i \in 1..Len(kwargs) |-> <<kwargs[i][1]>>]),
      Clause("VALUES", [i \in 1..Len(kwargs) |-> <<"?">>])>>

\* f"SELECT * FROM {cls.table_name}"
SelectAllText(cls) == <<Clause("SELECT * FROM", TableItem(cls))>>

\* f"SELECT * FROM {cls.table_name} WHERE {conditions} LIMIT 1"
GetText(cls, kwargs) ==
    <<Clause("SELECT * FROM", TableItem(cls)),
      Clause("WHERE", EqItems(KwKeys(kwargs))),
      Clause("LIMIT", <<<<"1">>>>)>>

\* f"UPDATE {cls.table_name} SET {set_clause} WHERE {where_clause}"
UpdateText(cls, where, updates) ==
    <<Clause("UPDATE", TableItem(cls)),
      Clause("SET", EqItems(KwKeys(updates))),
      Clause("WHERE", EqItems(KwKeys(where)))>>

\* f"DELETE FROM {cls.table_name} WHERE {conditions}"
DeleteText(cls, kwargs) ==
    <<Clause("DELETE FROM", TableItem(cls)),
      Clause("WHERE", EqItems(KwKeys(kwargs)))>>

Model_create_table(cls, locked) ==
    transaction_execute(Start, CreateTableText(cls), <<>>, locked)

Model_drop_table(cls, locked) ==
    transaction_execute(Start, DropTableText(cls), <<>>, locked)

\* create with after_save fired ahead of the INSERT
Model_create_early(cls, kwargs, locked) ==
    LET r1 == call_hook(Start, "before_save", [NoEvent EXCEPT !.kwargs = kwargs])
        r2 == call_hook(r1, "after_save", [NoEvent EXCEPT !.kwargs = kwargs])
    IN  transaction_execute(r2, InsertText(cls, kwargs), KwValues(kwargs), locked)

Model_create(cls, kwargs, locked) ==
    LET r1 == call_hook(Start, "before_save", [NoEvent EXCEPT !.kwargs = kwargs])
    IN  {call_hook(r2, "after_save", [NoEvent EXCEPT !.kwargs = kwargs]) :
            r2 \in transaction_execute(r1, InsertText(cls, kwargs), KwValues(kwargs), locked)}

Model_all(cls) == fetch_all(Start, SelectAllText(cls), <<>>)

Model_get(r, cls, kwargs) == fetch_one(r, GetText(cls, kwargs), KwValues(kwargs))

\* update that returns as soon as the pre-fetch finds no row
Model_update_returns(cls, where, updates, locked) ==
    UNION {
        LET instance_before == r1.rows
            r2 == call_hook(r1, "before_update",
                            [NoEvent EXCEPT !.before = instance_before, !.kwargs = updates])
        IN  IF r1.err = NoError /\ instance_before = <<>> THEN {r1}
            ELSE UNION {
                {call_hook(r4, "after_update",
                           [NoEvent EXCEPT !.before = instance_before, !.after = r4.rows]) :
                    r4 \in Model_get(r3, cls, where)} :
                r3 \in transaction_execute(r2, UpdateText(cls, where, updates),
                                           KwValues(updates) \o KwValues(where), locked)} :
        r1 \in Model_get(Start, cls, where)}

\* update whose second fetch looks the row up under its new values
Model_update_refetches(cls, where, updates, locked) ==
    UNION {
        LET instance_before == r1.rows
            r2 == call_hook(r1, "before_update",
                            [NoEvent EXCEPT !.before = instance_before, !.kwargs = updates])
            merged == [i \in 1..Len(where) |->
                          IF \E j \in 1..Len(updates) : updates[j][1] = where[i][1]
                          THEN updates[CHOOSE j \in 1..Len(updates) :
                                          updates[j][1] = where[i][1]]
                          ELSE where[i]]
        IN  UNION {
                {call_hook(r4, "after_update",
                           [NoEvent EXCEPT !.before = instance_before, !.after = r4.rows]) :
                    r4 \in Model_get(r3, cls, merged)} :
                r3 \in transaction_execute(r2, UpdateText(cls, where, updates),
                                           KwValues(updates) \o KwValues(where), locked)} :
        r1 \in Model_get(Start, cls, where)}

Model_update(cls, where, updates, locked) ==
    UNION {
        LET instance_before == r1.rows
            r2 == call_hook(r1, "before_update",
                            [NoEvent EXCEPT !.before = instance_before, !.kwargs = updates])
        IN  UNION {
                {call_hook(r4, "after_update",
                           [NoEvent EXCEPT !.before = instance_before, !.after = r4.rows]) :
                    r4 \in Model_get(r3, cls, where)} :
                r3 \in transaction_execute(r2, UpdateText(cls, where, updates),
                                           KwValues(updates) \o KwValues(where), locked)} :
        r1 \in Model_get(Start, cls, where)}

Model_delete(cls, kwargs, locked) ==
    UNION {
        LET instance == r1.rows
            r2 == call_hook(r1, "before_delete", [NoEvent EXCEPT !.before = instance])
        IN  {call_hook(r3, "after_delete", [NoEvent EXCEPT !.before = instance]) :
                r3 \in transaction_execute(r2, DeleteText(cls, kwargs), KwValues(kwargs), locked)} :
        r1 \in Model_get(Start, cls, kwargs)}

-----------------------------------------------------------------------------
(* query.py: QueryBuilder and QuerySet *)

\* self.ordering = None
NoOrdering == <<>>

QueryBuilder(table_name) ==
    [table_name |-> table_name, filters |-> <<>>, filter_likes |-> <<>>,
     ordering |-> NoOrdering]

\* add_filter that assigns the new conditions instead of updating with them
add_filter_replaces(qb, kwargs) == [qb EXCEPT !.filters = kwargs]

add_filter(qb, kwargs) == [qb EXCEPT !.filters = @ \o kwargs]

add_filter_like(qb, kwargs) == [qb EXCEPT !.filter_likes = @ \o kwargs]

\* set_order that keeps an ordering already set
set_order_first(qb, field_name, descending) ==
    IF qb.ordering # NoOrdering THEN qb
    ELSE [qb EXCEPT !.ordering = <<field_name, IF descending THEN "DESC" ELSE "ASC">>]

\* self.ordering = f"{field_name} {direction}"
set_order(qb, field_name, descending) ==
    [qb EXCEPT !.ordering = <<field_name, IF descending THEN "DESC" ELSE "ASC">>]

\* build_select with `elif self.filter_likes:`: one WHERE clause at most
build_select_elif(qb) ==
    [query |->
        <<Clause("SELECT * FROM", <<<<Fmt(qb.table_name)>>>>)>>
        \o (IF qb.filters # <<>>
            THEN <<Clause("WHERE", EqItems(KwKeys(qb.filters)))>>
            ELSE IF qb.filter_likes # <<>>
            THEN <<Clause("WHERE", LikeItems(KwKeys(qb.filter_likes)))>> ELSE <<>>)
        \o (IF qb.ordering # NoOrdering
            THEN <<Clause("ORDER BY", <<qb.ordering>>)>> ELSE <<>>),
     params |->
        KwValues(qb.filters)
        \o [i \in 1..Len(qb.filter_likes) |-> Percent(qb.filter_likes[i][2])]]

\* the pair (query, value_tuple)
build_select(qb) ==
    [query |->
        <<Clause("SELECT * FROM", <<<<Fmt(qb.table_name)>>>>)>>
        \o (IF qb.filters # <<>>
            THEN <<Clause("WHERE", EqItems(KwKeys(qb.filters)))>> ELSE <<>>)
        \o (IF qb.filter_likes # <<>>
            THEN <<Clause("WHERE", LikeItems(KwKeys(qb.filter_likes)))>> ELSE <<>>)
        \o (IF qb.ordering # NoOrdering
            THEN <<Clause("ORDER BY", <<qb.ordering>>)>> ELSE <<>>),
     params |->
        KwValues(qb.filters)
        \o [i \in 1..Len(qb.filter_likes) |-> Percent(qb.filter_likes[i][2])]]

\* QuerySet.__init__
QuerySet(model) == [model |-> model, query_builder |-> QueryBuilder(model.table_name)]

\* filter that chains on a copy and leaves this QuerySet as it was
QuerySet_filter_copy(q, kwargs) == q

QuerySet_filter(q, kwargs) == [q EXCEPT !.query_builder = add_filter(@, kwargs)]

QuerySet_filter_like(q, kwargs) == [q EXCEPT !.query_builder = add_filter_like(@, kwargs)]

QuerySet_order_by(q, field_name, descending) ==
    [q EXCEPT !.query_builder = set_order(@, field_name, descending)]

QuerySet_all(q) ==
    fetch_all(Start, build_select(q.query_builder).query, build_select(q.query_builder).params)

\* get: self.filter(**kwargs), then build and fetch on the builder so changed
QuerySet_get(q, kwargs) ==
    fetch_one(Start,
              build_select(QuerySet_filter(q, kwargs).query_builder).query,
              build_select(QuerySet_filter(q, kwargs).query_builder).params)

-----------------------------------------------------------------------------
(* State *)

NoQuery == [query |-> <<>>, params |-> <<>>]

\* no operation is running and none has left a transcript
Idle ==
    [op |-> "idle", cls |-> None, kwargs |-> <<>>, where |-> <<>>, updates |-> <<>>,
     query |-> <<>>, params |-> <<>>, events |-> <<>>, err |-> NoError,
     result |-> <<>>, db0 |-> db]

\* the operation `op` has run as `r`: its arguments, the statement a
\* QuerySet compiled, the run, and the database as the call found it
Transcript(op, cls, kwargs, where, updates, b, r) ==
    [op |-> op, cls |-> cls.table_name, kwargs |-> kwargs, where |-> where,
     updates |-> updates, query |-> b.query, params |-> b.params,
     events |-> r.events, err |-> r.err,
     result |-> IF r.err = NoError THEN r.rows ELSE <<>>, db0 |-> db]

Ran(op, cls, kwargs, where, updates, b, r) ==
    /\ call' = Transcript(op, cls, kwargs, where, updates, b, r)
    /\ db' = r.db

EmptyDb == [t \in TableNames |-> NoTable]

\* a database file that already holds the users table and its rows
SeededDb == [EmptyDb EXCEPT !["users"] = [exists |-> TRUE, rows |-> Row]]

Init ==
    /\ connection = FALSE
    /\ db = EmptyDb
    /\ plugins = <<>>
    /\ qs = QuerySet(User)
    /\ call = [Idle EXCEPT !.db0 = EmptyDb]

-----------------------------------------------------------------------------
(* Operations *)

\* DBBase.connect: sqlite3.connect succeeds (`ok`) or raises sqlite3.Error
Connect(ok) ==
    /\ call.op = "idle"
    /\ connection' = IF ok THEN TRUE ELSE connection
    /\ call' = [Idle EXCEPT !.op = "connect", !.err = IF ok THEN NoError ELSE ErrConnect]
    /\ UNCHANGED <<db, plugins, qs>>

\* DBBase.close
Close ==
    /\ call.op = "idle"
    /\ connection' = IF connection THEN FALSE ELSE connection
    /\ call' = [Idle EXCEPT !.op = "close"]
    /\ UNCHANGED <<db, plugins, qs>>

\* PluginManager.load_plugin
LoadPlugin(kind) ==
    /\ call.op = "idle"
    /\ Len(plugins) < MaxPlugins
    /\ plugins' = Append(plugins, kind)
    /\ call' = [Idle EXCEPT !.op = "load_plugin"]
    /\ UNCHANGED <<connection, db, qs>>

\* the caller reads the outcome; the next operation may start
Return ==
    /\ call.op # "idle"
    /\ call' = Idle
    /\ UNCHANGED <<connection, db, plugins, qs>>

\* DBBase.execute, called by the application with a SELECT of its own
Execute(cls) ==
    /\ call.op = "idle"
    /\ \E r \in execute(Start, SelectAllText(cls), <<>>, FALSE) :
          Ran("DBBase.execute", cls, <<>>, <<>>, <<>>, NoQuery, r)
    /\ UNCHANGED <<connection, plugins, qs>>

\* the scripts an application runs: rebuild the users table, or a typo
Scripts ==
    {<<DropTableText(User), CreateTableText(User)>>,
     <<<<Clause("SELEC", <<<<"users">>>>)>>>>}

ExecuteScript(script, locked) ==
    /\ call.op = "idle"
    /\ Ran("DBBase.execute_script", User, <<>>, <<>>, <<>>, NoQuery,
           execute_script(Start, script, locked))
    /\ UNCHANGED <<connection, plugins, qs>>

\* with db.transaction(): <body>, the body the application's own: nothing,
\* an INSERT through db.execute, a raise, or an INSERT and then a raise
Bodies == {"pass", "execute", "raise", "execute_raise"}

RunBody(body, r, cls, kwargs, locked) ==
    CASE body = "pass" -> {r}
      [] body = "raise" -> {Raise(r, ErrBody)}
      [] body = "execute" ->
           execute(r, InsertText(cls, kwargs), KwValues(kwargs), locked)
      [] OTHER ->
           {IF x.err = NoError THEN Raise(x, ErrBody) ELSE x :
               x \in execute(r, InsertText(cls, kwargs), KwValues(kwargs), locked)}

Transaction(body, cls, kwargs, locked) ==
    /\ call.op = "idle"
    /\ LET r1 == transaction_enter(Start)
       IN  \E r \in (IF r1.err # NoError THEN {r1}
                     ELSE {transaction_exit(r1, b) :
                              b \in RunBody(body, r1, cls, kwargs, locked)}) :
              Ran("DBBase.transaction", cls, kwargs, <<>>, <<>>, NoQuery, r)
    /\ UNCHANGED <<connection, plugins, qs>>

CreateTable(cls, locked) ==
    /\ call.op = "idle"
    /\ \E r \in Model_create_table(cls, locked) :
          Ran("create_table", cls, <<>>, <<>>, <<>>, NoQuery, r)
    /\ UNCHANGED <<connection, plugins, qs>>

DropTable(cls, locked) ==
    /\ call.op = "idle"
    /\ \E r \in Model_drop_table(cls, locked) :
          Ran("drop_table", cls, <<>>, <<>>, <<>>, NoQuery, r)
    /\ UNCHANGED <<connection, plugins, qs>>

Create(cls, kwargs, locked) ==
    /\ call.op = "idle"
    /\ \E r \in Model_create(cls, kwargs, locked) :
          Ran("create", cls, kwargs, <<>>, <<>>, NoQuery, r)
    /\ UNCHANGED <<connection, plugins, qs>>

All(cls) ==
    /\ call.op = "idle"
    /\ \E r \in Model_all(cls) : Ran("all", cls, <<>>, <<>>, <<>>, NoQuery, r)
    /\ UNCHANGED <<connection, plugins, qs>>

Get(cls, kwargs) ==
    /\ call.op = "idle"
    /\ \E r \in Model_get(Start, cls, kwargs) :
          Ran("get", cls, kwargs, <<>>, <<>>, NoQuery, r)
    /\ UNCHANGED <<connection, plugins, qs>>

Update(cls, where, updates, locked) ==
    /\ call.op = "idle"
    /\ \E r \in Model_update(cls, where, updates, locked) :
          Ran("update", cls, <<>>, where, updates, NoQuery, r)
    /\ UNCHANGED <<connection, plugins, qs>>

Delete(cls, kwargs, locked) ==
    /\ call.op = "idle"
    /\ \E r \in Model_delete(cls, kwargs, locked) :
          Ran("delete", cls, kwargs, <<>>, <<>>, NoQuery, r)
    /\ UNCHANGED <<connection, plugins, qs>>

\* QueryableModel.objects
Objects(cls) ==
    /\ call.op = "idle"
    /\ qs' = QuerySet(cls)
    /\ call' = [Idle EXCEPT !.op = "objects", !.cls = cls.table_name]
    /\ UNCHANGED <<connection, db, plugins>>

Filter(kwargs) ==
    /\ call.op = "idle"
    /\ Len(qs.query_builder.filters) + Len(kwargs) <= MaxFilters
    /\ qs' = QuerySet_filter(qs, kwargs)
    /\ call' = [Idle EXCEPT !.op = "filter", !.kwargs = kwargs]
    /\ UNCHANGED <<connection, db, plugins>>

FilterLike(kwargs) ==
    /\ call.op = "idle"
    /\ Len(qs.query_builder.filter_likes) + Len(kwargs) <= MaxLikes
    /\ qs' = QuerySet_filter_like(qs, kwargs)
    /\ call' = [Idle EXCEPT !.op = "filter_like", !.kwargs = kwargs]
    /\ UNCHANGED <<connection, db, plugins>>

OrderBy(field_name, descending) ==
    /\ call.op = "idle"
    /\ qs' = QuerySet_order_by(qs, field_name, descending)
    /\ call' = [Idle EXCEPT !.op = "order_by",
                            !.kwargs = <<<<field_name, IF descending THEN "True" ELSE "False">>>>]
    /\ UNCHANGED <<connection, db, plugins>>

QuerySetAll ==
    /\ call.op = "idle"
    /\ \E r \in QuerySet_all(qs) :
          Ran("QuerySet.all", qs.model, <<>>, <<>>, <<>>,
              build_select(qs.query_builder), r)
    /\ UNCHANGED <<connection, plugins, qs>>

QuerySetGet(kwargs) ==
    /\ call.op = "idle"
    /\ Len(qs.query_builder.filters) + Len(kwargs) <= MaxFilters
    /\ qs' = QuerySet_filter(qs, kwargs)
    /\ \E r \in QuerySet_get(qs, kwargs) :
          Ran("QuerySet.get", qs.model, kwargs, <<>>, <<>>,
              build_select(QuerySet_filter(qs, kwargs).query_builder), r)
    /\ UNCHANGED <<connection, plugins>>

-----------------------------------------------------------------------------
(* Specifications *)

\* the CRUD layer over a connection and its plugins
Next ==
    \/ \E ok \in BOOLEAN : Connect(ok)
    \/ Close
    \/ \E kind \in PluginKinds : LoadPlugin(kind)
    \/ Return
    \/ \E cls \in Classes : Execute(cls)
    \/ \E script \in Scripts, locked \in BOOLEAN : ExecuteScript(script, locked)
    \/ \E body \in Bodies, cls \in Classes, kwargs \in Kwargs, locked \in BOOLEAN :
          Len(kwargs) = Cardinality(Columns) /\ Transaction(body, cls, kwargs, locked)
    \/ \E cls \in Classes, locked \in BOOLEAN : CreateTable(cls, locked)
    \/ \E cls \in Classes, locked \in BOOLEAN : DropTable(cls, locked)
    \/ \E cls \in Classes, kwargs \in Kwargs, locked \in BOOLEAN : Create(cls, kwargs, locked)
    \/ \E cls \in Classes : All(cls)
    \/ \E cls \in Classes, kwargs \in Kwargs : Get(cls, kwargs)
    \/ \E cls \in Classes, where \in Kwargs, updates \in Kwargs, locked \in BOOLEAN :
          Update(cls, where, updates, locked)
    \/ \E cls \in Classes, kwargs \in Kwargs, locked \in BOOLEAN : Delete(cls, kwargs, locked)

Spec == Init /\ [][Next]_vars

\* a QuerySet over a seeded database
InitQ ==
    /\ connection = FALSE
    /\ db = SeededDb
    /\ plugins = <<"Logger">>
    /\ qs = QuerySet(User)
    /\ call = [Idle EXCEPT !.db0 = SeededDb]

NextQ ==
    \/ \E ok \in BOOLEAN : Connect(ok)
    \/ Close
    \/ Return
    \/ \E cls \in Classes : Objects(cls)
    \/ \E kwargs \in Kwargs : Filter(kwargs)
    \/ \E kwargs \in Kwargs : FilterLike(kwargs)
    \/ \E field_name \in Columns, descending \in BOOLEAN : OrderBy(field_name, descending)
    \/ QuerySetAll
    \/ \E kwargs \in Kwargs : QuerySetGet(kwargs)

SpecQ == InitQ /\ [][NextQ]_vars

\* every operation that needs the connection, over a connection that is
\* opened and closed, with both plugins registered and a QuerySet in use;
\* the seeded database file is held locked by another process throughout,
\* so that reads get through and writes do not
InitConn ==
    /\ connection = FALSE
    /\ db = SeededDb
    /\ plugins = <<"Audit", "Logger">>
    /\ qs = QuerySet(User)
    /\ call = [Idle EXCEPT !.db0 = SeededDb]

NextConn ==
    \/ \E ok \in BOOLEAN : Connect(ok)
    \/ Close
    \/ Return
    \/ \E cls \in Classes : Execute(cls)
    \/ \E script \in Scripts : ExecuteScript(script, TRUE)
    \/ \E body \in Bodies, cls \in Classes, kwargs \in Kwargs :
          Len(kwargs) = Cardinality(Columns) /\ Transaction(body, cls, kwargs, TRUE)
    \/ \E cls \in Classes : CreateTable(cls, TRUE)
    \/ \E cls \in Classes : DropTable(cls, TRUE)
    \/ \E cls \in Classes, kwargs \in Kwargs : Create(cls, kwargs, TRUE)
    \/ \E cls \in Classes : All(cls)
    \/ \E cls \in Classes, kwargs \in Kwargs : Get(cls, kwargs)
    \/ \E cls \in Classes, where \in Kwargs, updates \in Kwargs :
          Update(cls, where, updates, TRUE)
    \/ \E cls \in Classes, kwargs \in Kwargs : Delete(cls, kwargs, TRUE)
    \/ \E cls \in Classes : Objects(cls)
    \/ QuerySetAll
    \/ \E kwargs \in Kwargs : QuerySetGet(kwargs)

SpecConn == InitConn /\ [][NextConn]_vars

\* a QuerySet that is only fetched from: objects, get and all
NextGet ==
    \/ \E ok \in BOOLEAN : Connect(ok)
    \/ Close
    \/ Return
    \/ \E cls \in Classes : Objects(cls)
    \/ QuerySetAll
    \/ \E kwargs \in Kwargs : QuerySetGet(kwargs)

SpecGet == InitQ /\ [][NextGet]_vars

-----------------------------------------------------------------------------
(* Properties of the QueryBuilder and the QuerySet *)

Compiled == call.op \in {"QuerySet.all", "QuerySet.get"}

WhereClauses == ClausesOf(call.query, "WHERE")

IsPrefix(s, t) == Len(s) <= Len(t) /\ SubSeq(t, 1, Len(s)) = s

\* the clause WHERE k1 = ? AND k2 = ? ... of the pairs kw
EqClause(kw) == [kw |-> "WHERE", items |-> [i \in 1..Len(kw) |-> <<kw[i][1], "=", "?">>]]

\* the clause WHERE k1 LIKE ? AND ... of the pairs kw
LikeClause(kw) == [kw |-> "WHERE", items |-> [i \in 1..Len(kw) |-> <<kw[i][1], "LIKE", "?">>]]

Mixed == qs.query_builder.filters # <<>> /\ qs.query_builder.filter_likes # <<>>

C2_FiltersAccumulate ==
    [][/\ call'.op = "filter" =>
            /\ qs'.query_builder.filters = qs.query_builder.filters \o call'.kwargs
            /\ qs'.query_builder.filter_likes = qs.query_builder.filter_likes
            /\ qs'.query_builder.ordering = qs.query_builder.ordering
       /\ (call'.op \in {"QuerySet.all", "QuerySet.get"}
           /\ qs'.query_builder.filter_likes = <<>>) =>
            /\ ClausesOf(call'.query, "WHERE") =
                  IF qs'.query_builder.filters = <<>> THEN <<>>
                  ELSE <<EqClause(qs'.query_builder.filters)>>
            /\ call'.params =
                  [i \in 1..Len(qs'.query_builder.filters) |->
                      qs'.query_builder.filters[i][2]]]_vars

C2_Witness ==
    /\ call.op = "QuerySet.all"
    /\ qs.query_builder.filter_likes = <<>>
    /\ qs.query_builder.filters = <<<<"name", "a">>, <<"id", "1">>>>
    /\ call.params = <<"a", "1">>
    /\ connection
    /\ call.result = <<[id |-> "1", name |-> "a"]>>

Direction(flag) == IF flag = "True" THEN "DESC" ELSE "ASC"

\* C3: order_by(field, descending) sets the ordering to that field with DESC
\* when descending and ASC otherwise, and leaves the filters and LIKE filters
\* alone; filter, filter_like and get leave the ordering alone; and a
\* statement compiled once an ordering is set has exactly one ORDER BY
\* clause, naming the ordering then in force.
C3_LastOrderWins ==
    [][/\ call'.op = "order_by" =>
            /\ qs'.query_builder.ordering =
                  <<call'.kwargs[1][1], Direction(call'.kwargs[1][2])>>
            /\ qs'.query_builder.filters = qs.query_builder.filters
            /\ qs'.query_builder.filter_likes = qs.query_builder.filter_likes
       /\ call'.op \in {"filter", "filter_like", "QuerySet.all", "QuerySet.get"} =>
            qs'.query_builder.ordering = qs.query_builder.ordering
       /\ (call'.op \in {"QuerySet.all", "QuerySet.get"}
           /\ qs'.query_builder.ordering # <<>>) =>
            ClausesOf(call'.query, "ORDER BY") =
               <<[kw |-> "ORDER BY", items |-> <<qs'.query_builder.ordering>>]>>]_vars

C3_Witness ==
    /\ call.op = "QuerySet.all"
    /\ qs.query_builder.ordering = <<"name", "DESC">>
    /\ qs.query_builder.filters # <<>>
    /\ Keywords(call.query) = <<"SELECT * FROM", "WHERE", "ORDER BY">>
    /\ connection
    /\ call.err = NoError

\* C9: get(**kwargs) appends kwargs to the equality filters of the QuerySet;
\* no operation on the same QuerySet removes or reorders a filter; and every
\* statement all() or get() compiles has, when there are filters, the clause
\* WHERE f1 = ? AND ... over all of them in order as its first WHERE clause
\* and their values as its first parameters.
C9_GetCompounds ==
    [][/\ call'.op = "QuerySet.get" =>
            qs'.query_builder.filters = qs.query_builder.filters \o call'.kwargs
       /\ call'.op # "objects" =>
            IsPrefix(qs.query_builder.filters, qs'.query_builder.filters)
       /\ (call'.op \in {"QuerySet.all", "QuerySet.get"}
           /\ qs'.query_builder.filters # <<>>) =>
            /\ ClausesOf(call'.query, "WHERE") # <<>>
            /\ ClausesOf(call'.query, "WHERE")[1] = EqClause(qs'.query_builder.filters)
            /\ IsPrefix([i \in 1..Len(qs'.query_builder.filters) |->
                            qs'.query_builder.filters[i][2]], call'.params)]_vars

\* under SpecGet only get adds filters: an all() whose statement carries the
\* conditions of two earlier get calls
C9_Witness ==
    /\ call.op = "QuerySet.all"
    /\ qs.query_builder.filters = <<<<"id", "1">>, <<"id", "2">>>>
    /\ WhereClauses = <<EqClause(<<<<"id", "1">>, <<"id", "2">>>>)>>
    /\ connection
    /\ call.err = NoError
    /\ call.result = <<>>

-----------------------------------------------------------------------------
(* Properties of the CRUD layer *)

EventsOf(kind) == {i \in DOMAIN call.events : call.events[i].e = kind}

HookCalls(hook_name) ==
    {i \in DOMAIN call.events :
        call.events[i].e = "hook" /\ call.events[i].hook = hook_name}

Defining(hook_name) == {i \in DOMAIN plugins : hook_name \in PluginHooks(plugins[i])}

\* the hook fires once for each registered plugin that defines it, in
\* registration order, and for no other
FiredOnce(hook_name) ==
    /\ \A p \in Defining(hook_name) :
          Cardinality({i \in HookCalls(hook_name) : call.events[i].plugin = p}) = 1
    /\ \A i \in HookCalls(hook_name) : call.events[i].plugin \in Defining(hook_name)
    /\ \A i, j \in HookCalls(hook_name) :
          i < j => call.events[i].plugin < call.events[j].plugin

Before(A, B) == \A i \in A, j \in B : i < j

TableOfCall == Fmt(call.cls)

\* C4: a create that succeeds fires before_save once for every registered
\* plugin that defines it, then executes exactly one statement, the INSERT
\* naming the supplied fields in the supplied order with one ? for each and
\* the supplied values as its parameters, commits it, and then fires
\* after_save once for every registered plugin that defines it; both hooks
\* receive the supplied keyword values.
C4_CreateHooksAroundInsert ==
    (call.op = "create" /\ call.err = NoError) =>
        /\ FiredOnce("before_save")
        /\ FiredOnce("after_save")
        /\ \A i \in HookCalls("before_save") \cup HookCalls("after_save") :
              call.events[i].kwargs = call.kwargs
        /\ Cardinality(EventsOf("execute")) = 1
        /\ Cardinality(EventsOf("commit")) = 1
        /\ EventsOf("rollback") = {}
        /\ \A i \in EventsOf("execute") :
              /\ call.events[i].ok
              /\ call.events[i].text =
                    <<[kw |-> "INSERT INTO", items |-> <<<<TableOfCall>>>>],
                      [kw |-> "COLUMNS",
                       items |-> [k \in 1..Len(call.kwargs) |-> <<call.kwargs[k][1]>>]],
                      [kw |-> "VALUES",
                       items |-> [k \in 1..Len(call.kwargs) |-> <<"?">>]]>>
              /\ call.events[i].params =
                    [k \in 1..Len(call.kwargs) |-> call.kwargs[k][2]]
        /\ Before(HookCalls("before_save"), EventsOf("execute"))
        /\ Before(EventsOf("execute"), EventsOf("commit"))
        /\ Before(EventsOf("commit"), HookCalls("after_save"))

C4_Witness ==
    /\ call.op = "create"
    /\ call.err = NoError
    /\ call.kwargs = <<<<"name", "a">>, <<"id", "2">>>>
    /\ plugins = <<"Logger", "Audit">>
    /\ Cardinality(HookCalls("before_save")) = 1
    /\ Cardinality(HookCalls("after_save")) = 2
    /\ [id |-> "2", name |-> "a"] \in db["users"].rows \ call.db0["users"].rows

NeedsConnection ==
    {"create_table", "drop_table", "create", "all", "get", "update", "delete",
     "QuerySet.all", "QuerySet.get", "DBBase.execute", "DBBase.execute_script",
     "DBBase.transaction"}

\* C5: an operation that needs the connection and runs while the connection
\* is not established raises the connection-not-established error, executes
\* no statement and no script, commits nothing, rolls nothing back, and
\* leaves the database as it was.
C5_NotEstablished ==
    (call.op \in NeedsConnection /\ ~connection) =>
        /\ call.err = ErrNotEstablished
        /\ EventsOf("execute") = {}
        /\ EventsOf("script") = {}
        /\ EventsOf("commit") = {}
        /\ EventsOf("rollback") = {}
        /\ EventsOf("enter") = {}
        /\ db = call.db0

\* an update of a row that is there, with the Audit plugin registered, on a
\* connection that is not established
C5_Witness ==
    /\ call.op = "update"
    /\ call.where = <<<<"id", "1">>>>
    /\ call.updates = <<<<"name", "a">>>>
    /\ ~connection
    /\ call.err = ErrNotEstablished
    /\ call.events = <<>>

CrudOps == {"create_table", "drop_table", "create", "all", "get", "update", "delete"}

ErrConfiguration == "configuration error: the record type sets no table_name"

\* C6 as written, on an open connection: a CRUD or table operation of a
\* record type whose table_name is not set fails with a configuration error
\* and sends no statement to the database.
C6_ConfigurationError ==
    (call.op \in CrudOps /\ call.cls = None /\ connection) =>
        /\ call.err = ErrConfiguration
        /\ EventsOf("execute") = {}

MutatingOps == {"create_table", "drop_table", "create", "update", "delete"}

AfterHook(op) ==
    CASE op = "create" -> "after_save"
      [] op = "update" -> "after_update"
      [] op = "delete" -> "after_delete"
      [] OTHER -> "none"

\* the statements executed inside the transaction scope
InScope ==
    {i \in EventsOf("execute") :
        /\ \E e \in EventsOf("enter") : e < i
        /\ \A c \in EventsOf("commit") \cup EventsOf("rollback") : i < c}

\* C7: on an open connection create_table, drop_table and create always
\* enter the transaction scope, update and delete enter it when their
\* pre-fetch has succeeded, and a scope that is entered executes one
\* statement and ends in exactly one of commit and rollback: commit if and
\* only if the statement executed without error.  When the statement fails
\* the transaction is rolled back and not committed, the operation raises
\* the connection layer's error, its after hook does not fire and the
\* database is as it was.
C7_CommitOrRollback ==
    (call.op \in MutatingOps /\ connection) =>
        /\ call.op \in {"create_table", "drop_table", "create"} => EventsOf("enter") # {}
        /\ EventsOf("enter") = {} =>
              /\ EventsOf("commit") \cup EventsOf("rollback") = {}
              /\ call.err = ErrExecute
        /\ EventsOf("enter") # {} =>
              /\ Cardinality(EventsOf("enter")) = 1
              /\ Cardinality(InScope) = 1
              /\ Cardinality(EventsOf("commit") \cup EventsOf("rollback")) = 1
              /\ EventsOf("commit") # {} <=> \A i \in InScope : call.events[i].ok
              /\ (\E i \in InScope : ~call.events[i].ok) =>
                    /\ EventsOf("rollback") # {}
                    /\ EventsOf("commit") = {}
                    /\ call.err = ErrExecute
                    /\ call.err \in ConnectionLayerErrors
                    /\ HookCalls(AfterHook(call.op)) = {}
                    /\ db = call.db0

C7_Witness ==
    /\ call.op = "update"
    /\ connection
    /\ \E i \in EventsOf("execute") : call.events[i].why = "UNIQUE constraint failed"
    /\ "Audit" \in {plugins[i] : i \in DOMAIN plugins}
    /\ EventsOf("rollback") # {}
    /\ HookCalls("before_update") # {}
    /\ call.err = ErrExecute

Selects == {i \in EventsOf("execute") : call.events[i].text[1].kw = "SELECT * FROM"}

Writes == EventsOf("execute") \ Selects

\* the conditions of the running update or delete
Conditions == IF call.op = "update" THEN call.where ELSE call.kwargs

Satisfies(row, conds) == \A i \in 1..Len(conds) : row[conds[i][1]] = conds[i][2]

\* the table is there, there is a condition, and no row satisfies them all
NoRowMatches ==
    /\ call.db0[TableOfCall].exists
    /\ Conditions # <<>>
    /\ \A row \in call.db0[TableOfCall].rows : ~Satisfies(row, Conditions)

NotLocked == \A i \in EventsOf("execute") : call.events[i].why # "database is locked"

BeforeHook(op) == IF op = "update" THEN "before_update" ELSE "before_delete"

\* C8: an update (with something to set) or a delete whose conditions no
\* row matches, on an open connection to a database that is not locked,
\* raises nothing and leaves the database as it was: the pre-fetch finds no
\* row, the before hook fires with that absent row, then the UPDATE or
\* DELETE is executed and committed, then (for update, after a second fetch
\* that finds no row either) the after hook fires with absent rows.
C8_NoMatchStillRuns ==
    (/\ call.op \in {"update", "delete"}
     /\ connection
     /\ NoRowMatches
     /\ call.op = "update" => call.updates # <<>>
     /\ NotLocked) =>
        /\ call.err = NoError
        /\ db = call.db0
        /\ Cardinality(Writes) = 1
        /\ \A i \in Writes :
              /\ call.events[i].ok
              /\ call.events[i].text[1].kw =
                    (IF call.op = "update" THEN "UPDATE" ELSE "DELETE FROM")
              /\ i \in InScope
        /\ Cardinality(Selects) = (IF call.op = "update" THEN 2 ELSE 1)
        /\ \A i \in Selects : call.events[i].ok
        /\ Cardinality(EventsOf("commit")) = 1
        /\ EventsOf("rollback") = {}
        /\ FiredOnce(BeforeHook(call.op))
        /\ FiredOnce(AfterHook(call.op))
        /\ \A i \in HookCalls(BeforeHook(call.op)) \cup HookCalls(AfterHook(call.op)) :
              call.events[i].before = <<>> /\ call.events[i].after = <<>>
        /\ \E i \in Selects : Before({i}, HookCalls(BeforeHook(call.op)))
        /\ Before(HookCalls(BeforeHook(call.op)), Writes)
        /\ Before(Writes, EventsOf("commit"))
        /\ Before(EventsOf("commit"), HookCalls(AfterHook(call.op)))
        /\ call.op = "update" =>
              \E i \in Selects :
                  /\ Before(EventsOf("commit"), {i})
                  /\ Before({i}, HookCalls("after_update"))

C8_Witness ==
    /\ call.op = "update"
    /\ connection
    /\ call.where = <<<<"id", "2">>>>
    /\ call.updates = <<<<"name", "a">>>>
    /\ call.db0["users"].rows = {[id |-> "1", name |-> "a"]}
    /\ plugins = <<"Audit">>
    /\ HookCalls("before_update") # {}
    /\ HookCalls("after_update") # {}
    /\ call.err = NoError

\* the update changes the value of a field its where clause names
ChangesWhereField ==
    \E i \in 1..Len(call.where), j \in 1..Len(call.updates) :
        /\ call.where[i][1] = call.updates[j][1]
        /\ call.where[i][2] # call.updates[j][2]

\* the row as the update leaves it
Updated(row) ==
    [c \in Columns |->
        IF \E j \in 1..Len(call.updates) : call.updates[j][1] = c
        THEN call.updates[CHOOSE j \in 1..Len(call.updates) : call.updates[j][1] = c][2]
        ELSE row[c]]

\* C10: an update that succeeds fetches twice, both times with
\* SELECT * FROM <table> WHERE <the original where> LIMIT 1 and the original
\* where values, the second time after the commit, and after_update receives
\* what the database then holds under the original where.  So when the
\* update has changed a where field of a matching row, after_update receives
\* a pre-image and, as post-image, no row or a row other than the pre-image,
\* and never the pre-image as updated.
C10_StalePostImage ==
    (call.op = "update" /\ call.err = NoError) =>
        /\ Cardinality(Selects) = 2
        /\ \A i \in Selects :
              /\ call.events[i].text =
                    <<[kw |-> "SELECT * FROM", items |-> <<<<TableOfCall>>>>],
                      EqClause(call.where),
                      [kw |-> "LIMIT", items |-> <<<<"1">>>>]>>
              /\ call.events[i].params =
                    [k \in 1..Len(call.where) |-> call.where[k][2]]
        /\ \E i \in Selects : Before(EventsOf("commit"), {i})
        /\ \A i \in HookCalls("after_update") :
              IF \E row \in db[TableOfCall].rows : Satisfies(row, call.where)
              THEN /\ Len(call.events[i].after) = 1
                   /\ call.events[i].after[1] \in db[TableOfCall].rows
                   /\ Satisfies(call.events[i].after[1], call.where)
              ELSE call.events[i].after = <<>>
        /\ (/\ ChangesWhereField
            /\ \E row \in call.db0[TableOfCall].rows : Satisfies(row, call.where)) =>
              \A i \in HookCalls("after_update") :
                  /\ Len(call.events[i].before) = 1
                  /\ \/ call.events[i].after = <<>>
                     \/ call.events[i].after # call.events[i].before
                  /\ call.events[i].after # <<Updated(call.events[i].before[1])>>

\* the row with id 1 has become the row with id 2, and after_update is told
\* that there is no row
C10_Witness ==
    /\ call.op = "update"
    /\ call.err = NoError
    /\ call.where = <<<<"id", "1">>>>
    /\ call.updates = <<<<"id", "2">>>>
    /\ [id |-> "1", name |-> "a"] \in call.db0["users"].rows
    /\ [id |-> "2", name |-> "a"] \in db["users"].rows
    /\ \E i \in HookCalls("after_update") :
          /\ call.events[i].before = <<[id |-> "1", name |-> "a"]>>
          /\ call.events[i].after = <<>>

====
